---- MODULE Spec2Model ----
(***************************************************************************)
(* A model of the tinydb storage core: the paged database file (DbFile),   *)
(* the write-ahead log (WAL), the pager with its MemPage byte layout and   *)
(* the table B-tree insert protocol.                                       *)
(*                                                                         *)
(* Byte slices are sequences of 0..255; the byte at Go offset o is the     *)
(* element o+1.  The database file is kept as its 100-byte header plus one *)
(* chunk per page: every write of the code lands on exactly one of these   *)
(* chunks (offset 0, offset 100, or (n-1)*PageSize), so chunks never       *)
(* overlap.  Every Seek, Write and Sync of the code may fail; the failing  *)
(* call of an operation is the input "fail".                               *)
(***************************************************************************)
EXTENDS Integers, Sequences, FiniteSets, TLC

VARIABLES
    dbDisk,   \* content of the database file
    dbFile,   \* the DbFile object
    walDisk,  \* content and handle offset of the "-wal" file
    wal,      \* the WAL object
    pgr,      \* the pager object
    tree,     \* the BTreeTable and its caller's RowID allocator
    call,     \* the last call made and what it returned
    hist,     \* history of acknowledged calls
    budget,   \* calls and injected I/O failures left
    heap,     \* backing arrays of the byte slices callers and the WAL hold
    thread    \* goroutines inside a call, the locks and the shared file handle

vars == <<dbDisk, dbFile, walDisk, wal, pgr, tree, call, hist, budget, heap, thread>>

-----------------------------------------------------------------------------
(* Bounds of the model *)

PageSize == 128

MaxPage == 2

MaxCalls == 2

MaxFaults == 1

MaxInserts == 3

(* Program constants *)

DbHeaderLen == 100

WALHeaderLen == 32

WALFrameHeaderLen == 24

InteriorHeaderLen == 12

LeafHeaderLen == 8

InteriorNodeSize == 8

PageTypeInternal == 5

PageTypeInternalIndex == 2

PageTypeLeaf == 13

U16 == 65536

-----------------------------------------------------------------------------
(* Byte-slice helpers *)

Zeros(n) == [i \in 1..n |-> 0]

Fill(n, b) == [i \in 1..n |-> b]

\* s[from:] of Go
SliceFrom(s, from) == SubSeq(s, from + 1, Len(s))

\* copy(dst[off:], src): copies min(len(dst)-off, len(src)) bytes
CopyAt(dst, off, src) ==
    LET n == IF Len(src) < Len(dst) - off THEN Len(src) ELSE Len(dst) - off
    IN  IF n <= 0 THEN dst
        ELSE SubSeq(dst, 1, off) \o SubSeq(src, 1, n) \o SubSeq(dst, off + n + 1, Len(dst))

\* binary.BigEndian.PutUint16 / Uint16 / PutUint32 / Uint32
BE16(v) == <<(v \div 256) % 256, v % 256>>

GetBE16(s, off) == s[off + 1] * 256 + s[off + 2]

BE32(v) == <<(v \div 16777216) % 256, (v \div 65536) % 256, (v \div 256) % 256, v % 256>>

GetBE32(s, off) ==
    s[off + 1] * 16777216 + s[off + 2] * 65536 + s[off + 3] * 256 + s[off + 4]

Put(m, k, v) == (k :> v) @@ m

Has(m, k) == k \in DOMAIN m

MaxOf(S) == IF S = {} THEN 0 ELSE CHOOSE x \in S : \A y \in S : y <= x

-----------------------------------------------------------------------------
(* DbFile *)

\* a storage.Page
Page(n, d) == [PageNumber |-> n, Data |-> d]

ZeroHeader == [FileChangeCounter |-> 0, SizeInPages |-> 0, PageSize |-> 0]

EmptyDisk == [hdrWritten |-> FALSE, hdr |-> ZeroHeader, pages |-> <<>>]

FileSize(disk) ==
    LET ends == {p * PageSize : p \in DOMAIN disk.pages}
                  \cup (IF disk.hdrWritten THEN {DbHeaderLen} ELSE {})
    IN  MaxOf(ends)

pageOffset(page) ==
    IF page = 1 THEN DbHeaderLen ELSE (page - 1) * PageSize

\* the 100 bytes DbFile.Read leaves zero and DbFile.Write skips on page 1
readOffset(page) == IF page = 1 THEN DbHeaderLen ELSE 0

OpenDbFile(disk) ==
    LET header == IF FileSize(disk) > 0 THEN disk.hdr ELSE ZeroHeader
    IN  [header |-> header,
         pageSize |-> IF FileSize(disk) > 0 THEN header.PageSize ELSE PageSize,
         totalPages |-> header.SizeInPages]

\* DbFile.Read: [err, data]
DbRead(disk, page) ==
    IF pageOffset(page) >= FileSize(disk)
    THEN [err |-> "EOF", data |-> <<>>]
    ELSE [err |-> "nil",
          data |-> Zeros(readOffset(page)) \o
                   (IF Has(disk.pages, page) THEN disk.pages[page]
                    ELSE Zeros(PageSize - readOffset(page)))]

GapInPagesLoose(pageNumber, totalPages) == pageNumber > totalPages + 2

GapInPages(pageNumber, totalPages) == pageNumber > totalPages + 1

\* the header as ParseFileHeader reads it back: a 16-bit page size and two
\* 32-bit fields (no 32-bit field comes near 2^32 here)
StoredHeader(h) ==
    [FileChangeCounter |-> h.FileChangeCounter,
     SizeInPages |-> h.SizeInPages,
     PageSize |-> h.PageSize % U16]

\* I/O calls of one DbFile.Write, numbered in the order the code makes them:
\* page i: Seek = 2i-1, Write = 2i; then header Seek, header Write, Sync.
DbWriteCalls(pages) == 2 * Len(pages) + 3

\* the step a failed call belongs to: 2i for page i's Seek and Write, 2n+2 for
\* the header's Seek and Write, 2n+4 for Sync
DbFailedStep(fail) == IF fail % 2 = 1 THEN fail + 1 ELSE fail

updateFileHeader(f, disk, pages, fail) ==
    LET h  == [FileChangeCounter |-> f.header.FileChangeCounter + 1,
               SizeInPages |-> f.totalPages,
               PageSize |-> f.pageSize % U16]
        f1 == [f EXCEPT !.header = h]
    IN  IF fail \in {2 * Len(pages) + 1, 2 * Len(pages) + 2}
        THEN [f |-> f1, disk |-> disk, err |-> "io"]
        ELSE [f |-> f1,
              disk |-> [disk EXCEPT !.hdrWritten = TRUE, !.hdr = StoredHeader(h)],
              err |-> "nil"]

RECURSIVE DbWriteLoop(_, _, _, _, _)
DbWriteLoop(f, disk, pages, i, fail) ==
    IF i > Len(pages)
    THEN LET r == updateFileHeader(f, disk, pages, fail)
         IN  IF r.err # "nil" THEN r
             ELSE IF fail = 2 * Len(pages) + 3 THEN [r EXCEPT !.err = "io"]
             ELSE r
    ELSE LET page == pages[i] IN
         IF GapInPages(page.PageNumber, f.totalPages)
         THEN [f |-> f, disk |-> disk, err |-> "gap"]
         ELSE LET f1 == [f EXCEPT !.totalPages =
                            IF page.PageNumber > @ THEN page.PageNumber ELSE @]
              IN  IF fail \in {2 * i - 1, 2 * i}
                  THEN [f |-> f1, disk |-> disk, err |-> "io"]
                  ELSE DbWriteLoop(
                         f1,
                         [disk EXCEPT !.pages =
                            Put(@, page.PageNumber,
                                SliceFrom(page.Data, readOffset(page.PageNumber)))],
                         pages, i + 1, fail)

\* DbFile.Write(pages...): [f, disk, err]
DbFileWrite(f, disk, pages, fail) == DbWriteLoop(f, disk, pages, 1, fail)

-----------------------------------------------------------------------------
(* WAL *)

EmptyWalDisk == [off |-> 0, items |-> <<>>]

OpenWAL(f) ==
    [pos |-> 0, totalPages |-> f.totalPages, pageCache |-> <<>>,
     checkpointNumber |-> 0, salt1 |-> 0, salt2 |-> 0]

WalCacheHit(w, page) == Has(w.pageCache, page)

\* WAL.Read: [err, data]
WalRead(w, disk, page) ==
    IF WalCacheHit(w, page)
    THEN [err |-> "nil", data |-> w.pageCache[page]]
    ELSE DbRead(disk, page)

\* the frame makeWalFrame returns: the 24-byte header is the buffer's initial
\* content and is then written into it again, followed by the page
makeWalFrame(w, pageNo, data, isCommit) ==
    LET header == [pageNumber |-> pageNo,
                   commit |-> IF isCommit THEN 1 ELSE 0,
                   salt1 |-> w.salt1, salt2 |-> w.salt2]
    IN  [kind |-> "frame", header |-> header, again |-> header, data |-> data,
         len |-> WALFrameHeaderLen + WALFrameHeaderLen + Len(data)]

\* I/O calls of one WAL.Write, numbered in the order the code makes them: when
\* pos = 0 the header's Seek, Copy, Sync; then for page i its Copy and its Sync.
WalHeaderCalls(w) == IF w.pos = 0 THEN 3 ELSE 0

WalWriteCalls(w, pages) == WalHeaderCalls(w) + 2 * Len(pages)

\* WAL.writeHeader: [w, wdisk, err]
writeHeader(w, wdisk, salts, fail) ==
    LET w1 == [w EXCEPT !.checkpointNumber = @ + 1,
                        !.salt1 = salts[1], !.salt2 = salts[2]]
        header == [kind |-> "header", at |-> 0, len |-> WALHeaderLen,
                   pageSize |-> PageSize,
                   checkpointNumber |-> w1.checkpointNumber,
                   salt1 |-> w1.salt1, salt2 |-> w1.salt2]
    IN  IF fail = 1 THEN [w |-> w1, wdisk |-> wdisk, err |-> "io"]
        ELSE IF fail = 2
        THEN [w |-> w1, wdisk |-> [wdisk EXCEPT !.off = 0], err |-> "io"]
        ELSE LET d1 == [off |-> WALHeaderLen, items |-> <<header>>]
             IN  IF fail = 3 THEN [w |-> w1, wdisk |-> d1, err |-> "io"]
                 ELSE [w |-> [w1 EXCEPT !.pos = WALHeaderLen], wdisk |-> d1,
                       err |-> "nil"]

\* WAL.writeLog: [w, wdisk, err]; copyCall and syncCall number its two I/O calls
writeLog(w, wdisk, pageNumber, data, isCommit, copyCall, fail) ==
    LET frame == makeWalFrame(w, pageNumber, data, isCommit)
        d1 == [off |-> wdisk.off + frame.len,
               items |-> Append(wdisk.items, frame @@ [at |-> wdisk.off])]
    IN  IF fail = copyCall THEN [w |-> w, wdisk |-> wdisk, err |-> "io"]
        ELSE IF fail = copyCall + 1 THEN [w |-> w, wdisk |-> d1, err |-> "io"]
        ELSE [w |-> [w EXCEPT !.pos = @ + frame.len], wdisk |-> d1,
              err |-> "nil"]

RECURSIVE WalWriteLoop(_, _, _, _, _, _)
WalWriteLoop(w, wdisk, pages, i, base, fail) ==
    IF i > Len(pages) THEN [w |-> w, wdisk |-> wdisk, err |-> "nil"]
    ELSE LET p  == pages[i]
             w1 == [w EXCEPT !.pageCache = Put(@, p.PageNumber, p.Data),
                             !.totalPages =
                                IF p.PageNumber > @ THEN p.PageNumber ELSE @]
             r  == writeLog(w1, wdisk, p.PageNumber, p.Data, i = Len(pages),
                            base + 2 * i - 1, fail)
         IN  IF r.err # "nil" THEN r
             ELSE WalWriteLoop(r.w, r.wdisk, pages, i + 1, base, fail)

\* WAL.Write(pages...): [w, wdisk, err]
WalFileWrite(w, wdisk, pages, salts, fail) ==
    IF w.pos = 0
    THEN LET h == writeHeader(w, wdisk, salts, fail)
         IN  IF h.err # "nil" THEN h
             ELSE WalWriteLoop(h.w, h.wdisk, pages, 1, 3, fail)
    ELSE WalWriteLoop(w, wdisk, pages, 1, 0, fail)

\* the batch Checkpoint gathers when the map is ranged over in this order
pagesToWrite(w, order) ==
    [i \in 1..Len(order) |-> Page(order[i], w.pageCache[order[i]])]

WalCheckpointClearing(w, f, disk, order, fail) ==
    IF Len(order) > 0
    THEN LET r == DbFileWrite(f, disk, pagesToWrite(w, order), fail)
         IN  [w |-> IF r.err = "nil" THEN [w EXCEPT !.pos = 0, !.pageCache = <<>>] ELSE w,
              f |-> r.f, disk |-> r.disk, err |-> r.err]
    ELSE [w |-> [w EXCEPT !.pos = 0], f |-> f, disk |-> disk, err |-> "nil"]

\* WAL.Checkpoint: [w, f, disk, err]
WalCheckpoint(w, f, disk, order, fail) ==
    IF Len(order) > 0
    THEN LET r == DbFileWrite(f, disk, pagesToWrite(w, order), fail)
         IN  [w |-> IF r.err = "nil" THEN [w EXCEPT !.pos = 0] ELSE w,
              f |-> r.f, disk |-> r.disk, err |-> r.err]
    ELSE [w |-> [w EXCEPT !.pos = 0], f |-> f, disk |-> disk, err |-> "nil"]

\* the orders a Go map with these keys can be ranged over in
RECURSIVE Orders(_)
Orders(S) ==
    IF S = {} THEN {<<>>}
    ELSE UNION {{<<x>> \o o : o \in Orders(S \ {x})} : x \in S}

-----------------------------------------------------------------------------
(* MemPage *)

NewPageHeader(pageType, pageSize) ==
    [Type |-> pageType, CellsOffset |-> pageSize % U16, FreeBlock |-> 0,
     NumCells |-> 0, FragmentedFreeBytes |-> 0, RightPage |-> 0]

headerOffset(pageNumber) == IF pageNumber = 1 THEN DbHeaderLen ELSE 0

IsInterior(pageType) == pageType \in {PageTypeInternal, PageTypeInternalIndex}

cellPointersStart(pageType, pageNumber) ==
    IF IsInterior(pageType)
    THEN headerOffset(pageNumber) + InteriorHeaderLen
    ELSE headerOffset(pageNumber) + LeafHeaderLen

\* the header bytes updateHeaderData writes at headerOffset
HeaderBytes(h) ==
    <<h.Type>> \o BE16(h.FreeBlock) \o BE16(h.NumCells) \o BE16(h.CellsOffset)
        \o <<h.FragmentedFreeBytes>>
        \o (IF IsInterior(h.Type) THEN BE32(h.RightPage) ELSE <<>>)

updateHeaderData(p) ==
    [p EXCEPT !.data = CopyAt(@, headerOffset(p.pageNumber), HeaderBytes(p.header))]

MemPage(header, pageNumber, data, dirty) ==
    [header |-> header, pageNumber |-> pageNumber, data |-> data, dirty |-> dirty]

\* the page Initialize writes to a brand new database file
InitialPage ==
    updateHeaderData(
        MemPage(NewPageHeader(PageTypeLeaf, PageSize), 1, Zeros(PageSize), FALSE))

\* FromBytes: the header parsed at headerOffset, the slice taken over
FromBytes(pageNumber, data) ==
    LET o == headerOffset(pageNumber)
        t == data[o + 1]
    IN  MemPage([Type |-> t,
                 FreeBlock |-> GetBE16(data, o + 1),
                 NumCells |-> GetBE16(data, o + 3),
                 CellsOffset |-> GetBE16(data, o + 5),
                 FragmentedFreeBytes |-> data[o + 8],
                 RightPage |-> IF IsInterior(t) THEN GetBE32(data, o + 8) ELSE 0],
                pageNumber, data, FALSE)

SetHeader(p, h) == updateHeaderData([p EXCEPT !.dirty = TRUE, !.header = h])

\* MemPage.CopyTo: the new value of dst
CopyTo(p, dst) ==
    [dst EXCEPT !.dirty = TRUE, !.header = p.header, !.data = CopyAt(@, 0, p.data)]

FitsLoose(p, recordLen) ==
    cellPointersStart(p.header.Type, p.pageNumber) + p.header.NumCells * 2
        <= p.header.CellsOffset - recordLen

Fits(p, recordLen) ==
    LET cellPointerOffset ==
            cellPointersStart(p.header.Type, p.pageNumber) + p.header.NumCells * 2
        cellDataOffset == p.header.CellsOffset - recordLen
    IN  cellPointerOffset + 2 <= cellDataOffset

CellCount(p) == p.header.NumCells

\* MemPage.AddCell: [p, panic]; the slice expressions p.data[cellPointerOffset:]
\* (two bytes are put there) and p.data[cellOffset:] panic when out of range
AddCell(p, data) ==
    LET cellPointerOffset ==
            cellPointersStart(p.header.Type, p.pageNumber)
                + ((2 * p.header.NumCells) % U16)
        cellLength == Len(data) % U16
        cellOffset == (p.header.CellsOffset - cellLength + U16) % U16
        p1 == [p EXCEPT !.dirty = TRUE]
    IN  IF cellPointerOffset + 2 > Len(p.data) \/ cellOffset > Len(p.data)
        THEN [p |-> p1, panic |-> TRUE]
        ELSE [p |-> updateHeaderData(
                      [p1 EXCEPT
                         !.data = CopyAt(CopyAt(@, cellPointerOffset, BE16(cellOffset)),
                                         cellOffset, data),
                         !.header.CellsOffset = cellOffset,
                         !.header.NumCells = (@ + 1) % U16]),
              panic |-> FALSE]

\* MemPage.cellDataOffset; -1 when the slice expression panics
cellDataOffset(p, cellIndex) ==
    LET cellPointerOffset ==
            cellPointersStart(p.header.Type, p.pageNumber) + 2 * cellIndex
    IN  IF cellPointerOffset + 2 > Len(p.data) THEN -1
        ELSE GetBE16(p.data, cellPointerOffset)

\* storage.Record.Write: a cell is the payload's length, the RowID (each a
\* one-byte varint here) and the payload
RecordBytes(r) == <<Len(r.Payload), r.RowID>> \o r.Payload

\* storage.ReadRecord on the bytes left from the cell's start
ReadRecordBytes(bytes) ==
    IF Len(bytes) < 2 \/ Len(bytes) < 2 + bytes[1]
    THEN [err |-> "EOF", RowID |-> 0, Payload |-> <<>>]
    ELSE [err |-> "nil", RowID |-> bytes[2], Payload |-> SubSeq(bytes, 3, 2 + bytes[1])]

\* MemPage.ReadRecord: [err, RowID, Payload], err = "panic" when a slice
\* expression is out of range
ReadRecord(p, cellIndex) ==
    LET cellDataStart == cellDataOffset(p, cellIndex)
    IN  IF cellDataStart < 0 \/ cellDataStart > Len(p.data)
        THEN [err |-> "panic", RowID |-> 0, Payload |-> <<>>]
        ELSE ReadRecordBytes(SliceFrom(p.data, cellDataStart))

\* storage.InteriorNode.ToBytes: LeftChild and Key, four bytes each
InteriorNodeBytes(node) == BE32(node.LeftChild) \o BE32(node.Key)

\* MemPage.ReadInteriorNode: [err, LeftChild, Key]
ReadInteriorNode(p, cellIndex) ==
    LET cellDataStart == cellDataOffset(p, cellIndex)
    IN  IF cellDataStart < 0 \/ cellDataStart > Len(p.data)
        THEN [err |-> "panic", LeftChild |-> 0, Key |-> 0]
        ELSE IF cellDataStart + InteriorNodeSize > Len(p.data)
        THEN [err |-> "EOF", LeftChild |-> 0, Key |-> 0]
        ELSE [err |-> "nil", LeftChild |-> GetBE32(p.data, cellDataStart),
              Key |-> GetBE32(p.data, cellDataStart + 4)]

-----------------------------------------------------------------------------
(* pager: [pageCount, pageCache, file], the file being the WAL as in Engine.Start *)

NoPage == MemPage(NewPageHeader(0, 0), 0, <<>>, FALSE)

NewPager(w) == [pageCount |-> w.totalPages, pageCache |-> <<>>, file |-> "wal"]

\* pager.Read: [err, page, pgr]
PagerRead(pg, w, disk, pageNumber) ==
    IF pageNumber < 1 THEN [err |-> "bounds", page |-> NoPage, pgr |-> pg]
    ELSE IF Has(pg.pageCache, pageNumber)
    THEN [err |-> "nil", page |-> pg.pageCache[pageNumber], pgr |-> pg]
    ELSE LET r == WalRead(w, disk, pageNumber)
         IN  IF r.err # "nil" THEN [err |-> r.err, page |-> NoPage, pgr |-> pg]
             ELSE [err |-> "nil", page |-> FromBytes(pageNumber, r.data),
                   pgr |-> [pg EXCEPT !.pageCache =
                                Put(@, pageNumber, FromBytes(pageNumber, r.data))]]

\* pager.Write: the pager after the pages went into the cache, in order
RECURSIVE PagerWrite(_, _)
PagerWrite(pg, pages) ==
    IF pages = <<>> THEN pg
    ELSE PagerWrite([pg EXCEPT !.pageCache = Put(@, Head(pages).pageNumber, Head(pages))],
                    Tail(pages))

\* pager.Allocate: [page, pgr]
Allocate(pg, pageType) ==
    LET n == pg.pageCount + 1
        newPage == updateHeaderData(
                       MemPage(NewPageHeader(pageType, PageSize), n, Zeros(PageSize), TRUE))
    IN  [page |-> newPage,
         pgr |-> [pg EXCEPT !.pageCount = n, !.pageCache = Put(@, n, newPage)]]

DirtyPages(pg) == {n \in DOMAIN pg.pageCache : pg.pageCache[n].dirty}

PagerFlushClearing(pg, w, wdisk, order, salts, fail) ==
    LET dirtyPages == [i \in 1..Len(order) |-> Page(order[i], pg.pageCache[order[i]].data)]
        r == WalFileWrite(w, wdisk, dirtyPages, salts, fail)
        cleaned == [n \in DOMAIN pg.pageCache |-> [pg.pageCache[n] EXCEPT !.dirty = FALSE]]
    IN  IF Len(order) = 0 THEN [pgr |-> pg, w |-> w, wdisk |-> wdisk, err |-> "nil"]
        ELSE [pgr |-> [pg EXCEPT !.pageCount = r.w.totalPages, !.pageCache = cleaned],
              w |-> r.w, wdisk |-> r.wdisk, err |-> r.err]

\* pager.Flush with the map ranged over in this order: [pgr, w, wdisk, err]
PagerFlush(pg, w, wdisk, order, salts, fail) ==
    LET dirtyPages == [i \in 1..Len(order) |-> Page(order[i], pg.pageCache[order[i]].data)]
        r == WalFileWrite(w, wdisk, dirtyPages, salts, fail)
        cleaned == [n \in DOMAIN pg.pageCache |-> [pg.pageCache[n] EXCEPT !.dirty = FALSE]]
    IN  IF Len(order) = 0 THEN [pgr |-> pg, w |-> w, wdisk |-> wdisk, err |-> "nil"]
        ELSE IF r.err # "nil" THEN [pgr |-> pg, w |-> r.w, wdisk |-> r.wdisk, err |-> r.err]
        ELSE [pgr |-> [pg EXCEPT !.pageCount = r.w.totalPages, !.pageCache = cleaned],
              w |-> r.w, wdisk |-> r.wdisk, err |-> "nil"]

\* pager.Reset
PagerReset(pg, w) ==
    [pg EXCEPT !.pageCount = w.totalPages,
               !.pageCache = [n \in DOMAIN @ \ DirtyPages(pg) |-> @[n]]]

-----------------------------------------------------------------------------
(* BTreeTable *)

\* maxRowID: [err, max], the iterator stopping at the first cell that cannot
\* be read
RECURSIVE maxRowIDFrom(_, _, _)
maxRowIDFrom(p, idx, max) ==
    IF idx >= CellCount(p) THEN [err |-> "nil", max |-> max]
    ELSE LET record == ReadRecord(p, idx)
         IN  IF record.err # "nil" THEN [err |-> record.err, max |-> 0]
             ELSE maxRowIDFrom(p, idx + 1, IF record.RowID > max THEN record.RowID ELSE max)

maxRowID(p) == maxRowIDFrom(p, 0, 0)

\* splitPage: [err, pgr, parent, left, right]
splitPage(pg, p) ==
    LET l == Allocate(pg, PageTypeLeaf)
        r == Allocate(l.pgr, PageTypeLeaf)
        m == maxRowID(p)
        leftPage == CopyTo(p, l.page)
        newHeader == [NewPageHeader(PageTypeInternal, Len(p.data))
                         EXCEPT !.RightPage = r.page.pageNumber]
        cell == [LeftChild |-> leftPage.pageNumber, Key |-> m.max]
        parent == AddCell(SetHeader(p, newHeader), InteriorNodeBytes(cell))
    IN  IF m.err # "nil"
        THEN [err |-> m.err, pgr |-> r.pgr, parent |-> p, left |-> l.page, right |-> r.page]
        ELSE [err |-> IF parent.panic THEN "panic" ELSE "nil", pgr |-> r.pgr,
              parent |-> parent.p, left |-> leftPage, right |-> r.page]

\* the leaf branch of Insert
InsertLeaf(pg, root, recordBytes) ==
    IF ~Fits(root, Len(recordBytes))
    THEN LET s == splitPage(pg, root)
             right == AddCell(s.right, recordBytes)
         IN  IF s.err # "nil" THEN [err |-> s.err, pgr |-> s.pgr]
             ELSE IF right.panic THEN [err |-> "panic", pgr |-> s.pgr]
             ELSE [err |-> "nil", pgr |-> PagerWrite(s.pgr, <<s.left, right.p, s.parent>>)]
    ELSE LET added == AddCell(root, recordBytes)
         IN  IF added.panic THEN [err |-> "panic", pgr |-> pg]
             ELSE [err |-> "nil", pgr |-> PagerWrite(pg, <<added.p>>)]

\* the interior branch of Insert
InsertInterior(pg, w, disk, root, recordBytes) ==
    LET d == PagerRead(pg, w, disk, root.header.RightPage)
        destPage == d.page
        m == maxRowID(destPage)
        internalNode == [LeftChild |-> destPage.pageNumber, Key |-> m.max]
        a == Allocate(d.pgr, PageTypeLeaf)
        parent == AddCell([root EXCEPT !.header.RightPage = a.page.pageNumber],
                          InteriorNodeBytes(internalNode))
        fresh == AddCell(a.page, recordBytes)
        added == AddCell(destPage, recordBytes)
    IN  IF d.err # "nil" THEN [err |-> d.err, pgr |-> pg]
        ELSE IF ~Fits(destPage, Len(recordBytes))
        THEN IF m.err # "nil" THEN [err |-> m.err, pgr |-> d.pgr]
             ELSE IF ~Fits(root, InteriorNodeSize) THEN [err |-> "interior", pgr |-> d.pgr]
             ELSE IF parent.panic \/ fresh.panic THEN [err |-> "panic", pgr |-> a.pgr]
             ELSE [err |-> "nil", pgr |-> PagerWrite(a.pgr, <<parent.p, fresh.p>>)]
        ELSE IF added.panic THEN [err |-> "panic", pgr |-> d.pgr]
        ELSE [err |-> "nil", pgr |-> PagerWrite(d.pgr, <<added.p>>)]

\* BTreeTable.Insert: [err, pgr]
BTreeInsert(pg, w, disk, rootPage, r) ==
    LET rd == PagerRead(pg, w, disk, rootPage)
    IN  IF rd.err # "nil" THEN [err |-> rd.err, pgr |-> pg]
        ELSE IF rd.page.header.Type = PageTypeLeaf
        THEN InsertLeaf(rd.pgr, rd.page, RecordBytes(r))
        ELSE IF rd.page.header.Type = PageTypeInternal
        THEN InsertInterior(rd.pgr, w, disk, rd.page, RecordBytes(r))
        ELSE [err |-> "unsupported", pgr |-> rd.pgr]

-----------------------------------------------------------------------------
(* Calls on the storage layer *)

\* math/rand draws: the default source is one fixed stream per process, and
\* writeHeader is its only user, so header write number n of a process draws
\* the stream's values number 2n-1 and 2n; value number i is written Rand(i).
Rand(i) == i

SaltsOf(w) == <<Rand(2 * w.checkpointNumber + 1), Rand(2 * w.checkpointNumber + 2)>>

\* the page images a caller passes: call number k hands image 16k+i as the
\* i-th page of its batch, so that every image written is told from the others
CallNumber == MaxCalls - budget.calls + 1

\* image number b is a page of PageSize bytes b
ImageTable == [b \in 0..(16 * MaxCalls + 16) |-> Fill(PageSize, b)]

Image(i) == ImageTable[16 * CallNumber + i]

Injective(s) == \A i, j \in 1..Len(s) : s[i] = s[j] => i = j

\* the page numbers of a batch: any nonempty sequence without repetition
Batches ==
    {s \in UNION {[1..n -> 1..MaxPage] : n \in 1..MaxPage} : Injective(s)}

PagesOf(numbers) == [i \in 1..Len(numbers) |-> Page(numbers[i], Image(i))]

CanCall(fail) ==
    /\ budget.calls > 0
    /\ call.err # "panic"
    /\ fail # 0 => budget.faults > 0

Spend(err) ==
    [calls |-> budget.calls - 1,
     faults |-> IF err = "io" THEN budget.faults - 1 ELSE budget.faults]

Returned(op, err, pages, fail) ==
    [op |-> op, err |-> err, pages |-> pages, fail |-> IF err = "io" THEN fail ELSE 0]

\* no goroutine is inside a call
NoThreads == [pc |-> <<>>]

\* no slice has been made yet
NoHeap == [bufs |-> <<>>, held |-> {}]

\* OpenDbFile on a path that does not exist yet, then OpenWAL
InitStorage ==
    /\ dbDisk = EmptyDisk
    /\ dbFile = OpenDbFile(EmptyDisk)
    /\ walDisk = EmptyWalDisk
    /\ wal = OpenWAL(OpenDbFile(EmptyDisk))
    /\ call = Returned("Open", "nil", <<>>, 0)
    /\ hist = [acked |-> <<>>, okWrites |-> 0, flushed |-> <<>>, logged |-> {}]
    /\ budget = [calls |-> MaxCalls, faults |-> MaxFaults]
    /\ heap = NoHeap
    /\ thread = NoThreads

\* a caller's DbFile.Write(pages...)
DbWrite ==
    \E numbers \in Batches : \E fail \in 0..DbWriteCalls(numbers) :
        /\ CanCall(fail)
        /\ LET r == DbFileWrite(dbFile, dbDisk, PagesOf(numbers), fail) IN
            /\ dbFile' = r.f
            /\ dbDisk' = r.disk
            /\ call' = Returned("DbWrite", r.err, numbers, DbFailedStep(fail))
            /\ hist' = [hist EXCEPT !.okWrites = IF r.err = "nil" THEN @ + 1 ELSE @]
            /\ budget' = Spend(r.err)
        /\ UNCHANGED <<walDisk, wal, pgr, tree, heap, thread>>

\* the file is closed and opened again: OpenDbFile
ReopenDb ==
    /\ CanCall(0)
    /\ call.op # "Reopen"
    /\ dbDisk.hdrWritten
    /\ dbFile' = OpenDbFile(dbDisk)
    /\ call' = Returned("Reopen", "nil", <<>>, 0)
    /\ budget' = Spend("nil")
    /\ UNCHANGED <<dbDisk, walDisk, wal, pgr, tree, hist, heap, thread>>

\* what the callers of WAL.Write have been told about each page: the bytes of
\* the last Write of the page that returned nil, forgotten when a later Write
\* of the page fails
AckWrite(acked, pages, err) ==
    LET touched == {pages[i].PageNumber : i \in 1..Len(pages)}
        kept == [k \in DOMAIN acked \ touched |-> acked[k]]
        index(k) == CHOOSE i \in 1..Len(pages) : pages[i].PageNumber = k
    IN  IF err # "nil" THEN kept
        ELSE [k \in touched |->
                [data |-> pages[index(k)].Data, live |-> TRUE,
                 checkpoints |-> 0]] @@ kept

\* the frames a WAL.Write copied and synced: w.pos moves on by one frame
\* after each Sync that succeeds, from 32 when the call wrote the header
SyncedFrames(w, w1) ==
    LET start == IF w.pos = 0 THEN WALHeaderLen ELSE w.pos
    IN  IF w1.pos < start THEN 0
        ELSE (w1.pos - start) \div makeWalFrame(w, 0, Zeros(PageSize), FALSE).len

\* a caller's WAL.Write(pages...)
WalWrite ==
    \E numbers \in Batches : \E fail \in 0..WalWriteCalls(wal, numbers) :
        /\ CanCall(fail)
        /\ LET r == WalFileWrite(wal, walDisk, PagesOf(numbers), SaltsOf(wal), fail) IN
            /\ wal' = r.w
            /\ walDisk' = r.wdisk
            /\ call' = Returned("WalWrite", r.err, numbers, fail)
            /\ hist' = [hist EXCEPT
                  !.acked = AckWrite(@, PagesOf(numbers), r.err),
                  !.logged = @ \cup {PagesOf(numbers)[i] : i \in 1..SyncedFrames(wal, r.w)}]
            /\ budget' = Spend(r.err)
        /\ UNCHANGED <<dbDisk, dbFile, pgr, tree, heap, thread>>

\* a caller's WAL.Checkpoint()
Checkpoint ==
    \E order \in Orders(DOMAIN wal.pageCache) : \E fail \in 0..DbWriteCalls(order) :
        /\ CanCall(fail)
        /\ Len(order) = 0 => fail = 0
        /\ LET r == WalCheckpoint(wal, dbFile, dbDisk, order, fail) IN
            /\ wal' = r.w
            /\ dbFile' = r.f
            /\ dbDisk' = r.disk
            /\ call' = Returned("Checkpoint", r.err, order, DbFailedStep(fail))
            /\ hist' = [hist EXCEPT
                  !.okWrites = IF r.err = "nil" /\ Len(order) > 0 THEN @ + 1 ELSE @,
                  !.acked = [k \in DOMAIN @ |-> [@[k] EXCEPT !.checkpoints = @ + 1]]]
            /\ budget' = Spend(r.err)
        /\ UNCHANGED <<walDisk, pgr, tree, heap, thread>>

\* the process ends and the database is opened again: OpenDbFile, then OpenWAL
Reopen ==
    /\ CanCall(0)
    /\ call.op # "Reopen"
    /\ dbDisk.hdrWritten \/ FileSize(dbDisk) = 0
    /\ dbFile' = OpenDbFile(dbDisk)
    /\ wal' = OpenWAL(OpenDbFile(dbDisk))
    /\ walDisk' = [walDisk EXCEPT !.off = 0]
    /\ call' = Returned("Reopen", "nil", <<>>, 0)
    /\ hist' = [hist EXCEPT !.acked = [k \in DOMAIN @ |-> [@[k] EXCEPT !.live = FALSE]]]
    /\ budget' = Spend("nil")
    /\ UNCHANGED <<dbDisk, pgr, tree, heap, thread>>

NoPager == [pageCount |-> 0, pageCache |-> <<>>, file |-> "none"]

NoTree == [rootPage |-> 0, nextRowID |-> 0]

Init ==
    /\ InitStorage
    /\ pgr = NoPager
    /\ tree = NoTree

\* a caller's DbFile.Read(page)
DbReadCall ==
    \E page \in 1..MaxPage :
        /\ call' = [op |-> "DbRead", err |-> DbRead(dbDisk, page).err,
                    pages |-> <<page>>, fail |-> 0]
        /\ UNCHANGED <<dbDisk, dbFile, walDisk, wal, pgr, tree, hist, budget, heap, thread>>

NextDbFile == DbWrite \/ DbReadCall \/ ReopenDb

SpecDbFile == Init /\ [][NextDbFile]_vars

NextWAL == WalWrite \/ Checkpoint \/ Reopen

SpecWAL == Init /\ [][NextWAL]_vars

-----------------------------------------------------------------------------
(* Calls on the pager and the table B-tree *)

\* payloads the callers insert: a short one, one that fills most of a leaf
\* and two longer than any leaf's free space
Payloads == {Fill(16, 7), Fill(58, 7), Zeros(PageSize - 4), Fill(PageSize - 4, 7)}

\* Engine.Start on an empty data directory: Initialize writes page 1, then
\* OpenWAL and NewPager(wal); the table is rooted at page 1.  The calls on the
\* tree are explored with every I/O call succeeding (no failure is left in
\* the budget)
Started == DbFileWrite(OpenDbFile(EmptyDisk), EmptyDisk, <<Page(1, InitialPage.data)>>, 0)

InitBTree ==
    /\ dbDisk = Started.disk
    /\ dbFile = Started.f
    /\ walDisk = EmptyWalDisk
    /\ wal = OpenWAL(Started.f)
    /\ pgr = NewPager(OpenWAL(Started.f))
    /\ tree = [rootPage |-> 1, nextRowID |-> 1]
    /\ call = Returned("Start", "nil", <<>>, 0)
    /\ hist = [acked |-> <<>>, okWrites |-> 1, flushed |-> <<>>, logged |-> {}]
    /\ budget = [calls |-> MaxCalls, faults |-> 0]
    /\ heap = NoHeap
    /\ thread = NoThreads

\* a caller allocates a leaf and roots a new table there
CreateTable ==
    /\ call.err # "panic"
    /\ tree = [rootPage |-> 1, nextRowID |-> 1]
    /\ pgr' = Allocate(pgr, PageTypeLeaf).pgr
    /\ tree' = [tree EXCEPT !.rootPage = Allocate(pgr, PageTypeLeaf).page.pageNumber]
    /\ call' = Returned("Allocate", "nil", <<>>, 0)
    /\ UNCHANGED <<dbDisk, dbFile, walDisk, wal, hist, budget, heap, thread>>

\* a caller's BTreeTable.Insert of a record under the next RowID
Insert ==
    \E payload \in Payloads :
        /\ call.err # "panic"
        /\ tree.nextRowID <= MaxInserts
        /\ LET r == BTreeInsert(pgr, wal, dbDisk, tree.rootPage,
                                [RowID |-> tree.nextRowID, Payload |-> payload]) IN
            /\ pgr' = r.pgr
            /\ call' = Returned("Insert", r.err, <<tree.nextRowID, Len(payload) + 2>>, 0)
        /\ tree' = [tree EXCEPT !.nextRowID = @ + 1]
        /\ UNCHANGED <<dbDisk, dbFile, walDisk, wal, hist, budget, heap, thread>>

\* a caller's pager.Flush() with something dirty (with nothing dirty Flush
\* touches nothing)
Flush ==
    \E order \in Orders(DirtyPages(pgr)) : \E fail \in 0..WalWriteCalls(wal, order) :
        /\ CanCall(fail)
        /\ Len(order) > 0
        /\ LET r == PagerFlush(pgr, wal, walDisk, order, SaltsOf(wal), fail) IN
            /\ pgr' = r.pgr
            /\ wal' = r.w
            /\ walDisk' = r.wdisk
            /\ call' = Returned("Flush", r.err, order, fail)
            /\ hist' = [hist EXCEPT !.flushed =
                  IF r.err # "nil" THEN @
                  ELSE [n \in DirtyPages(pgr) |-> pgr.pageCache[n].data] @@ @]
            /\ budget' = Spend(r.err)
        /\ UNCHANGED <<dbDisk, dbFile, tree, heap, thread>>

\* a caller's pager.Reset() with something dirty
Reset ==
    /\ CanCall(0)
    /\ DirtyPages(pgr) # {}
    /\ pgr' = PagerReset(pgr, wal)
    /\ call' = Returned("Reset", "nil", <<>>, 0)
    /\ budget' = Spend("nil")
    /\ UNCHANGED <<dbDisk, dbFile, walDisk, wal, tree, hist, heap, thread>>

NextBTree == CreateTable \/ Insert \/ Flush \/ Reset

SpecBTree == InitBTree /\ [][NextBTree]_vars

-----------------------------------------------------------------------------
(* Calls on the pager alone: one I/O call of one Flush may fail, the engine's
   transaction counter has come to leave room for two Inserts, and a caller
   allocates before it dirties anything else *)

InitPager ==
    /\ dbDisk = Started.disk
    /\ dbFile = Started.f
    /\ walDisk = EmptyWalDisk
    /\ wal = OpenWAL(Started.f)
    /\ pgr = NewPager(OpenWAL(Started.f))
    /\ tree = [rootPage |-> 1, nextRowID |-> MaxInserts - 1]
    /\ call = Returned("Start", "nil", <<>>, 0)
    /\ hist = [acked |-> <<>>, okWrites |-> 1, flushed |-> <<>>, logged |-> {}]
    /\ budget = [calls |-> MaxCalls, faults |-> 1]
    /\ heap = NoHeap
    /\ thread = NoThreads

\* a caller's pager.Allocate(PageTypeLeaf)
AllocateLeaf ==
    /\ CanCall(0)
    /\ DirtyPages(pgr) = {}
    /\ pgr' = Allocate(pgr, PageTypeLeaf).pgr
    /\ call' = Returned("Allocate", "nil", <<pgr.pageCount + 1>>, 0)
    /\ budget' = Spend("nil")
    /\ UNCHANGED <<dbDisk, dbFile, walDisk, wal, tree, hist, heap, thread>>

NextPager == AllocateLeaf \/ Insert \/ Flush \/ Reset

SpecPager == InitPager /\ [][NextPager]_vars

-----------------------------------------------------------------------------
(* Claims on the storage layer *)

Acked == DOMAIN hist.acked

\* the image the last call passed as the i-th page of its batch
LastImage(i) == ImageTable[16 * (MaxCalls - budget.calls) + i]

\* C1: a page whose last WAL.Write returned nil reads back, through the same
\* WAL, as the bytes written, whatever Checkpoint calls came in between and
\* whether or not the database file holds the page.
C1_WalReadThrough ==
    \A p \in Acked :
        hist.acked[p].live =>
            WalRead(wal, dbDisk, p) = [err |-> "nil", data |-> hist.acked[p].data]

\* a page written through the WAL, a failed Checkpoint after it, and a
\* database file that never held the page
C1_Witness ==
    \E p \in Acked :
        /\ hist.acked[p].live
        /\ hist.acked[p].checkpoints > 0
        /\ call.op = "Checkpoint" /\ call.err # "nil"
        /\ ~Has(dbDisk.pages, p)

\* C2: after WAL.Write returned nil and the database was opened again with no
\* Checkpoint in between, the page reads back through the new WAL as written.
C2_WalWriteDurable ==
    call.op = "Reopen" =>
        \A p \in Acked :
            hist.acked[p].checkpoints = 0 =>
                WalRead(wal, dbDisk, p) = [err |-> "nil", data |-> hist.acked[p].data]

VisibleInWal(i) ==
    LET r == WalRead(wal, dbDisk, call.pages[i])
    IN  r.err = "nil" /\ r.data = LastImage(i)

AllOrNone ==
    \/ \A i \in 1..Len(call.pages) : VisibleInWal(i)
    \/ \A i \in 1..Len(call.pages) : ~VisibleInWal(i)

\* C3: when WAL.Write returns, all pages of its batch are visible to Read or
\* none is, and a Write that returned an error left the buffer and TotalPages
\* as they were.
C3_BatchAtomic ==
    [][call'.op = "WalWrite" =>
          /\ AllOrNone'
          /\ call'.err # "nil" =>
                /\ wal'.pageCache = wal.pageCache
                /\ wal'.totalPages = wal.totalPages]_vars

\* C4: after a Checkpoint in which no I/O call failed, DbFile.Read of every
\* page of the WAL buffer returns the buffered bytes (from offset 100 on for
\* page 1).
C4_CheckpointWritesThrough ==
    (call.op = "Checkpoint" /\ call.err # "io") =>
        \A p \in DOMAIN wal.pageCache :
            LET r == DbRead(dbDisk, p)
            IN  /\ r.err = "nil"
                /\ SliceFrom(r.data, readOffset(p))
                      = SliceFrom(wal.pageCache[p], readOffset(p))

Written == DOMAIN dbDisk.pages

\* C8: TotalPages is the largest page number written to the file, and every
\* page up to it has been written.
C8_TotalPages ==
    /\ dbFile.totalPages = MaxOf(Written)
    /\ \A p \in 1..dbFile.totalPages : p \in Written

\* C9: the change counter is the number of DbFile.Write calls that returned
\* nil, in the DbFile and in the header a reopened DbFile reads, whose
\* SizeInPages is the highest page number written.
C9_ChangeCounter ==
    /\ dbFile.header.FileChangeCounter = hist.okWrites
    /\ call.op = "Reopen" => dbFile.header.SizeInPages = MaxOf(Written)

\* the first page of the batch, in input order, that lies more than one past
\* the running page count (0 when there is none)
RECURSIVE FirstGap(_, _, _)
FirstGap(numbers, i, total) ==
    IF i > Len(numbers) THEN 0
    ELSE IF numbers[i] - total >= 2 THEN i
    ELSE FirstGap(numbers, i + 1, IF numbers[i] > total THEN numbers[i] ELSE total)

\* C10: DbFile.Write returns the gap error exactly when, going through the
\* batch in input order with the running TotalPages, it comes to a page more
\* than one past it (it does not come to it when an I/O call on an earlier page
\* failed); a rejected single-page Write changes neither the DbFile nor the
\* file.
C10_GapRejection ==
    [][call'.op = "DbWrite" =>
          LET g == FirstGap(call'.pages, 1, dbFile.totalPages)
          IN  /\ call'.err = "gap" <=>
                    (g # 0 /\ (call'.fail = 0 \/ call'.fail \div 2 >= g))
              /\ (call'.err = "gap" /\ Len(call'.pages) = 1) =>
                    UNCHANGED <<dbFile, dbDisk>>]_vars

\* a single-page Write rejected for a gap, and a two-page batch accepted
\* because its first page raised the running TotalPages
C10_Witness ==
    /\ call.op = "DbWrite"
    /\ \/ call.err = "gap" /\ Len(call.pages) = 1
       \/ call.err = "nil" /\ call.pages = <<1, 2>> /\ dbFile.header.FileChangeCounter = 1

-----------------------------------------------------------------------------
(* The WAL and its callers at the level of slices: a slice is a reference to
   a backing array in heap.bufs, wal.pageCache maps a page number to the
   reference WAL.Write stored, and heap.held are the references callers hold *)

NewRef(h) == Len(h.bufs) + 1

NewBuf(h, bytes) == [h EXCEPT !.bufs = Append(@, bytes)]

\* the WAL with every buffered slice replaced by its bytes
Deref(w, h) == [w EXCEPT !.pageCache = [p \in DOMAIN @ |-> h.bufs[@[p]]]]

StoreShared(h, src) == [heap |-> h, ref |-> src]

\* WAL.Write: dest := make([]byte, len(p.Data)); copy(dest, p.Data); the
\* slice that goes into pageCache
StoreCopy(h, src) == [heap |-> NewBuf(h, h.bufs[src]), ref |-> NewRef(h)]

\* the loop of WAL.Write over the caller's slices srcs: [heap, cache]
RECURSIVE StoreAll(_, _, _, _, _)
StoreAll(h, cache, numbers, srcs, i) ==
    IF i > Len(numbers) THEN [heap |-> h, cache |-> cache]
    ELSE LET st == StoreCopy(h, srcs[i])
         IN  StoreAll(st.heap, Put(cache, numbers[i], st.ref), numbers, srcs, i + 1)

\* WAL.Read: [err, heap, ref], the slice returned being a copy of the buffered
\* one or the slice DbFile.Read made
ReadCopy(h, w, disk, page) ==
    LET r == WalRead(Deref(w, h), disk, page)
    IN  IF r.err # "nil" THEN [err |-> r.err, heap |-> h, ref |-> 0]
        ELSE [err |-> "nil", heap |-> NewBuf(h, r.data), ref |-> NewRef(h)]

\* the caller's slices of a batch, one new backing array per page
RECURSIVE CallerBufs(_, _, _)
CallerBufs(h, n, i) ==
    IF i > n THEN h
    ELSE CallerBufs([NewBuf(h, Image(i)) EXCEPT !.held = @ \cup {NewRef(h)}], n, i + 1)

\* what a caller leaves in a slice it overwrites
Scribbled == Fill(PageSize, 255)

\* a caller makes its slices and calls WAL.Write(pages...)
WriteSlices ==
    \E numbers \in Batches :
        /\ CanCall(0)
        /\ LET h1 == CallerBufs(heap, Len(numbers), 1)
               srcs == [i \in 1..Len(numbers) |-> Len(heap.bufs) + i]
               r == WalFileWrite(Deref(wal, heap), walDisk, PagesOf(numbers),
                                 SaltsOf(wal), 0)
               st == StoreAll(h1, wal.pageCache, numbers, srcs, 1) IN
            /\ heap' = st.heap
            /\ wal' = [r.w EXCEPT !.pageCache = st.cache]
            /\ walDisk' = r.wdisk
            /\ call' = Returned("WalWrite", r.err, numbers, 0)
            /\ hist' = [hist EXCEPT !.acked = AckWrite(@, PagesOf(numbers), r.err)]
            /\ budget' = Spend(r.err)
        /\ UNCHANGED <<dbDisk, dbFile, pgr, tree, thread>>

\* a caller's WAL.Read(page); it keeps the slice
ReadSlice ==
    \E page \in 1..MaxPage :
        /\ CanCall(0)
        /\ LET r == ReadCopy(heap, wal, dbDisk, page) IN
            /\ heap' = IF r.err = "nil" THEN [r.heap EXCEPT !.held = @ \cup {r.ref}]
                       ELSE heap
            /\ call' = Returned("WalRead", r.err, <<page>>, 0)
        /\ budget' = Spend("nil")
        /\ UNCHANGED <<dbDisk, dbFile, walDisk, wal, pgr, tree, hist, thread>>

\* a caller overwrites the slices it holds
Scribble ==
    /\ \E ref \in heap.held : heap.bufs[ref] # Scribbled
    /\ heap' = [heap EXCEPT !.bufs = [ref \in DOMAIN @ |->
                                         IF ref \in heap.held THEN Scribbled ELSE @[ref]]]
    /\ call' = Returned("Scribble", "nil", <<>>, 0)
    /\ UNCHANGED <<dbDisk, dbFile, walDisk, wal, pgr, tree, hist, budget, thread>>

\* a caller's WAL.Checkpoint()
CheckpointSlices ==
    \E order \in Orders(DOMAIN wal.pageCache) :
        /\ CanCall(0)
        /\ LET r == WalCheckpoint(Deref(wal, heap), dbFile, dbDisk, order, 0) IN
            /\ wal' = [wal EXCEPT !.pos = r.w.pos]
            /\ dbFile' = r.f
            /\ dbDisk' = r.disk
            /\ call' = Returned("Checkpoint", r.err, order, 0)
            /\ budget' = Spend(r.err)
        /\ UNCHANGED <<walDisk, pgr, tree, hist, heap, thread>>

NextCopies == WriteSlices \/ ReadSlice \/ Scribble \/ CheckpointSlices

SpecCopies == Init /\ [][NextCopies]_vars

-----------------------------------------------------------------------------
(* Cells added to one new leaf page *)

MaxCells == 4

\* cell bytes a caller adds: empty, one byte, and lengths that fill page 1
\* and a later page exactly
CellData ==
    {<<>>, <<9>>, Fill(7, 3), Fill(40, 4), Fill(PageSize - LeafHeaderLen - 2, 5)}

\* the pager has handed out page n as a new leaf; hist.cells are the
\* arguments of the AddCell calls made on it
InitCells ==
    /\ \E n \in 1..MaxPage :
          /\ pgr = Allocate([NoPager EXCEPT !.pageCount = n - 1], PageTypeLeaf).pgr
          /\ tree = [rootPage |-> n, nextRowID |-> 1]
    /\ hist = [cells |-> <<>>]
    /\ call = Returned("Allocate", "nil", <<>>, 0)
    /\ budget = [calls |-> MaxCells, faults |-> 0]
    /\ dbDisk = EmptyDisk /\ dbFile = OpenDbFile(EmptyDisk)
    /\ walDisk = EmptyWalDisk /\ wal = OpenWAL(OpenDbFile(EmptyDisk))
    /\ heap = NoHeap
    /\ thread = NoThreads

\* a caller checks Fits(len(data)) and then calls AddCell(data)
AddCellCall ==
    \E data \in CellData :
        /\ CanCall(0)
        /\ Fits(pgr.pageCache[tree.rootPage], Len(data))
        /\ LET r == AddCell(pgr.pageCache[tree.rootPage], data) IN
            /\ pgr' = [pgr EXCEPT !.pageCache[tree.rootPage] = r.p]
            /\ call' = Returned("AddCell", IF r.panic THEN "panic" ELSE "nil", <<>>, 0)
        /\ hist' = [hist EXCEPT !.cells = Append(@, data)]
        /\ budget' = Spend("nil")
        /\ UNCHANGED <<dbDisk, dbFile, walDisk, wal, tree, heap, thread>>

NextCells == AddCellCall

SpecCells == InitCells /\ [][NextCells]_vars

-----------------------------------------------------------------------------
(* Goroutines calling one DbFile: dbDisk.bytes is the file byte by byte,
   thread.pos the offset of the os.File handle they share, thread.mu the
   RWMutex; every Seek, Read and Write on the handle is one step *)

NumThreads == 2

Threads == 1..NumThreads

\* page p of the file holds bytes 16p .. 16p + 15
PageBytes(p, v) == Fill(PageSize, 16 * p + v)

\* a database file of MaxPage pages, as a DbFile.Write of all of them left it
InitDbThreads ==
    /\ dbDisk = [hdr |-> [FileChangeCounter |-> 1, SizeInPages |-> MaxPage,
                          PageSize |-> PageSize],
                 bytes |-> [i \in 1..(MaxPage * PageSize) |->
                               IF i <= DbHeaderLen THEN 0
                               ELSE 16 * (((i - 1) \div PageSize) + 1)]]
    /\ dbFile = [header |-> dbDisk.hdr, pageSize |-> PageSize, totalPages |-> MaxPage]
    /\ thread = [mu |-> [readers |-> {}, writer |-> 0],
                 pos |-> DbHeaderLen,
                 pc |-> [t \in Threads |-> "idle"],
                 op |-> [t \in Threads |-> "none"],
                 arg |-> [t \in Threads |-> 0],
                 out |-> [t \in Threads |-> [op |-> "none"]]]
    /\ walDisk = EmptyWalDisk
    /\ wal = OpenWAL(dbFile)
    /\ pgr = NoPager
    /\ tree = NoTree
    /\ call = Returned("Open", "nil", <<>>, 0)
    /\ hist = [acked |-> <<>>, okWrites |-> 1, flushed |-> <<>>, logged |-> {}]
    /\ budget = [calls |-> MaxCalls, faults |-> 0]
    /\ heap = NoHeap

\* DbFile.Read(page): f.mu.RLock()
DbRLock ==
    \E t \in Threads, page \in 1..MaxPage :
        /\ CanCall(0)
        /\ thread.pc[t] = "idle"
        /\ thread.mu.writer = 0
        /\ thread' = [thread EXCEPT !.mu.readers = @ \cup {t}, !.pc[t] = "seek",
                                    !.op[t] = "Read", !.arg[t] = page]
        /\ budget' = Spend("nil")
        /\ UNCHANGED <<dbDisk, dbFile, walDisk, wal, pgr, tree, call, hist, heap>>

\* DbFile.Write(Page{page, ...}): f.mu.Lock(), the gap check and totalPages
DbLock ==
    \E t \in Threads, page \in 1..(MaxPage + 1) :
        /\ CanCall(0)
        /\ thread.pc[t] = "idle"
        /\ thread.mu.writer = 0 /\ thread.mu.readers = {}
        /\ ~GapInPages(page, dbFile.totalPages)
        /\ thread' = [thread EXCEPT !.mu.writer = t, !.pc[t] = "seek",
                                    !.op[t] = "Write", !.arg[t] = page]
        /\ dbFile' = [dbFile EXCEPT !.totalPages = MaxOf({@, page})]
        /\ budget' = Spend("nil")
        /\ UNCHANGED <<dbDisk, walDisk, wal, pgr, tree, call, hist, heap>>

\* f.file.Seek(f.pageOffset(page), io.SeekStart)
DbSeek ==
    \E t \in Threads :
        /\ thread.pc[t] = "seek"
        /\ thread' = [thread EXCEPT !.pos = pageOffset(thread.arg[t]),
                                    !.pc[t] = IF thread.op[t] = "Read" THEN "read"
                                              ELSE "write"]
        /\ UNCHANGED <<dbDisk, dbFile, walDisk, wal, pgr, tree, call, hist, budget, heap>>

\* f.file.Read(data[readOffset:]) at the handle's offset, then the deferred
\* f.mu.RUnlock() and the return
DbHandleRead ==
    \E t \in Threads :
        /\ thread.pc[t] = "read"
        /\ LET page == thread.arg[t]
               want == PageSize - readOffset(page)
               left == Len(dbDisk.bytes) - thread.pos
               n == IF left < want THEN left ELSE want
               got == SubSeq(dbDisk.bytes, thread.pos + 1, thread.pos + n)
           IN  thread' = [thread EXCEPT
                   !.pos = IF n > 0 THEN @ + n ELSE @,
                   !.mu.readers = @ \ {t},
                   !.pc[t] = "idle",
                   !.out[t] = IF n <= 0
                              THEN [op |-> "Read", page |-> page, err |-> "EOF"]
                              ELSE [op |-> "Read", page |-> page, err |-> "nil",
                                    data |-> Zeros(readOffset(page)) \o got
                                                 \o Zeros(want - n)]]
        /\ call' = Returned("DbRead", thread'.out[t].err, <<thread.arg[t]>>, 0)
        /\ UNCHANGED <<dbDisk, dbFile, walDisk, wal, pgr, tree, hist, budget, heap>>

\* f.file.Write(page.Data[readOffset:]) at the handle's offset
DbHandleWrite ==
    \E t \in Threads :
        /\ thread.pc[t] = "write"
        /\ LET page == thread.arg[t]
               data == SliceFrom(PageBytes(page, t), readOffset(page))
               pad == Zeros(MaxOf({0, thread.pos - Len(dbDisk.bytes)}))
               old == dbDisk.bytes \o pad
           IN  /\ dbDisk' = [dbDisk EXCEPT !.bytes =
                                SubSeq(old, 1, thread.pos) \o data
                                    \o SubSeq(old, thread.pos + Len(data) + 1, Len(old))]
               /\ thread' = [thread EXCEPT !.pos = @ + Len(data), !.pc[t] = "header"]
        /\ UNCHANGED <<dbFile, walDisk, wal, pgr, tree, call, hist, budget, heap>>

\* updateFileHeader (Seek(0), header.WriteTo), Sync, the deferred f.mu.Unlock()
DbFinishWrite ==
    \E t \in Threads :
        /\ thread.pc[t] = "header"
        /\ dbFile' = [dbFile EXCEPT
                         !.header = [FileChangeCounter |-> @.FileChangeCounter + 1,
                                     SizeInPages |-> dbFile.totalPages,
                                     PageSize |-> dbFile.pageSize]]
        /\ dbDisk' = [dbDisk EXCEPT !.hdr = dbFile'.header]
        /\ thread' = [thread EXCEPT
                         !.pos = DbHeaderLen, !.mu.writer = 0, !.pc[t] = "idle",
                         !.out[t] = [op |-> "Write", page |-> thread.arg[t],
                                     err |-> "nil"]]
        /\ call' = Returned("DbWrite", "nil", <<thread.arg[t]>>, 0)
        /\ UNCHANGED <<walDisk, wal, pgr, tree, hist, budget, heap>>

NextDbThreads ==
    DbRLock \/ DbLock \/ DbSeek \/ DbHandleRead \/ DbHandleWrite \/ DbFinishWrite

SpecDbThreads == InitDbThreads /\ [][NextDbThreads]_vars

-----------------------------------------------------------------------------
(* Goroutines calling one WAL: thread.mu.writer is the holder of w.mu,
   thread.loc the locals of each call; the assignment to the pageCache map
   takes time (pc "store"), and a map lookup made meanwhile is a data race *)

\* w.mu.Lock() returns
CanLock(mu) == mu.writer = 0

UnlockOnSuccess(mu, err) == IF err = "nil" THEN [mu EXCEPT !.writer = 0] ELSE mu

\* defer w.mu.Unlock(), run when the call returns err
Unlock(mu, err) == [mu EXCEPT !.writer = 0]

\* w.pageCache[p.PageNumber] = dest and the update of w.totalPages
Stored(w, p) ==
    [w EXCEPT !.pageCache = Put(@, p.PageNumber, p.Data),
              !.totalPages = IF p.PageNumber > @ THEN p.PageNumber ELSE @]

\* the Go runtime has stopped the process
Crashed == \E t \in Threads : thread.pc[t] = "dead"

AfterFault(err) == [budget EXCEPT !.faults = IF err = "io" THEN @ - 1 ELSE @]

InitWalThreads ==
    /\ dbDisk = EmptyDisk
    /\ dbFile = OpenDbFile(EmptyDisk)
    /\ walDisk = EmptyWalDisk
    /\ wal = OpenWAL(OpenDbFile(EmptyDisk))
    /\ pgr = NoPager
    /\ tree = NoTree
    /\ call = Returned("Open", "nil", <<>>, 0)
    /\ hist = [acked |-> <<>>, okWrites |-> 0, flushed |-> <<>>, logged |-> {}]
    /\ budget = [calls |-> MaxCalls, faults |-> MaxFaults]
    /\ heap = NoHeap
    /\ thread = [mu |-> [readers |-> {}, writer |-> 0],
                 pc |-> [t \in Threads |-> "idle"],
                 loc |-> [t \in Threads |-> [op |-> "none"]],
                 out |-> [t \in Threads |-> [op |-> "none"]]]

\* WAL.Write(pages...): w.mu.Lock()
WalWriteLock ==
    \E t \in Threads, numbers \in Batches :
        /\ CanCall(0)
        /\ thread.pc[t] = "idle"
        /\ CanLock(thread.mu)
        /\ thread' = [thread EXCEPT
                         !.mu.writer = t, !.pc[t] = "header",
                         !.loc[t] = [op |-> "WalWrite", pages |-> PagesOf(numbers),
                                     i |-> 1, err |-> "nil"]]
        /\ budget' = Spend("nil")
        /\ UNCHANGED <<dbDisk, dbFile, walDisk, wal, pgr, tree, call, hist, heap>>

\* if w.pos == 0 { w.writeHeader() }
WalWriteHeader ==
    \E t \in Threads, fail \in 0..3 :
        /\ thread.pc[t] = "header"
        /\ fail # 0 => (budget.faults > 0 /\ wal.pos = 0)
        /\ LET r == IF wal.pos = 0 THEN writeHeader(wal, walDisk, SaltsOf(wal), fail)
                    ELSE [w |-> wal, wdisk |-> walDisk, err |-> "nil"] IN
            /\ wal' = r.w
            /\ walDisk' = r.wdisk
            /\ thread' = [thread EXCEPT
                             !.pc[t] = IF r.err = "nil" THEN "loop" ELSE "exit",
                             !.loc[t].err = r.err]
            /\ budget' = AfterFault(r.err)
        /\ UNCHANGED <<dbDisk, dbFile, pgr, tree, call, hist, heap>>

\* dest is made and the assignment to the map begins
WalBeginStore ==
    \E t \in Threads :
        /\ thread.pc[t] = "loop"
        /\ thread' = [thread EXCEPT !.pc[t] = "store"]
        /\ UNCHANGED <<dbDisk, dbFile, walDisk, wal, pgr, tree, call, hist, budget, heap>>

\* the assignment to the map is complete; totalPages follows
WalEndStore ==
    \E t \in Threads :
        /\ thread.pc[t] = "store"
        /\ wal' = Stored(wal, thread.loc[t].pages[thread.loc[t].i])
        /\ thread' = [thread EXCEPT !.pc[t] = "log"]
        /\ UNCHANGED <<dbDisk, dbFile, walDisk, pgr, tree, call, hist, budget, heap>>

\* w.writeLog(p.PageNumber, dest, lastPage) and the end of the loop body
WalWriteLog ==
    \E t \in Threads, fail \in 0..2 :
        /\ thread.pc[t] = "log"
        /\ fail # 0 => budget.faults > 0
        /\ LET l == thread.loc[t]
               r == writeLog(wal, walDisk, l.pages[l.i].PageNumber, l.pages[l.i].Data,
                             l.i = Len(l.pages), 1, fail) IN
            /\ wal' = r.w
            /\ walDisk' = r.wdisk
            /\ thread' = [thread EXCEPT
                             !.pc[t] = IF r.err = "nil" /\ l.i < Len(l.pages)
                                       THEN "loop" ELSE "exit",
                             !.loc[t].i = @ + 1,
                             !.loc[t].err = r.err]
            /\ budget' = AfterFault(r.err)
        /\ UNCHANGED <<dbDisk, dbFile, pgr, tree, call, hist, heap>>

\* WAL.Checkpoint(): w.mu.Lock()
WalCheckpointLock ==
    \E t \in Threads :
        /\ CanCall(0)
        /\ thread.pc[t] = "idle"
        /\ CanLock(thread.mu)
        /\ thread' = [thread EXCEPT
                         !.mu.writer = t, !.pc[t] = "gather",
                         !.loc[t] = [op |-> "Checkpoint", pages |-> <<>>,
                                     i |-> 1, err |-> "nil"]]
        /\ budget' = Spend("nil")
        /\ UNCHANGED <<dbDisk, dbFile, walDisk, wal, pgr, tree, call, hist, heap>>

\* the range over w.pageCache that fills pagesToWrite
WalGather ==
    \E t \in Threads, order \in Orders(DOMAIN wal.pageCache) :
        /\ thread.pc[t] = "gather"
        /\ thread' = [thread EXCEPT !.pc[t] = "dbwrite",
                                    !.loc[t].pages = pagesToWrite(wal, order)]
        /\ UNCHANGED <<dbDisk, dbFile, walDisk, wal, pgr, tree, call, hist, budget, heap>>

\* w.dbFile.Write(pagesToWrite...) if there is a page, then w.pos = 0
WalDbWrite ==
    \E t \in Threads, fail \in 0..1 :
        /\ thread.pc[t] = "dbwrite"
        /\ fail # 0 => (budget.faults > 0 /\ Len(thread.loc[t].pages) > 0)
        /\ LET pages == thread.loc[t].pages
               r == IF Len(pages) > 0 THEN DbFileWrite(dbFile, dbDisk, pages, fail)
                    ELSE [f |-> dbFile, disk |-> dbDisk, err |-> "nil"] IN
            /\ dbFile' = r.f
            /\ dbDisk' = r.disk
            /\ wal' = IF r.err = "nil" THEN [wal EXCEPT !.pos = 0] ELSE wal
            /\ thread' = [thread EXCEPT !.pc[t] = "exit", !.loc[t].err = r.err]
            /\ budget' = AfterFault(r.err)
        /\ UNCHANGED <<walDisk, pgr, tree, call, hist, heap>>

\* the return of Write or Checkpoint with the deferred w.mu.Unlock()
WalExit ==
    \E t \in Threads :
        /\ thread.pc[t] = "exit"
        /\ thread' = [thread EXCEPT
                         !.mu = Unlock(@, thread.loc[t].err),
                         !.pc[t] = "idle",
                         !.out[t] = [op |-> thread.loc[t].op, err |-> thread.loc[t].err]]
        /\ call' = Returned(thread.loc[t].op, thread.loc[t].err, <<>>, 0)
        /\ UNCHANGED <<dbDisk, dbFile, walDisk, wal, pgr, tree, hist, budget, heap>>

\* WAL.Read(page) or WAL.TotalPages() is called: no lock is taken
WalReadBegin ==
    \E t \in Threads,
       req \in {[op |-> "WalRead", page |-> p] : p \in 1..MaxPage}
                  \cup {[op |-> "TotalPages", page |-> 0]} :
        /\ CanCall(0)
        /\ thread.pc[t] = "idle"
        /\ thread' = [thread EXCEPT !.pc[t] = "lookup", !.loc[t] = req]
        /\ budget' = Spend("nil")
        /\ UNCHANGED <<dbDisk, dbFile, walDisk, wal, pgr, tree, call, hist, heap>>

\* the lookup in w.pageCache (or the load of w.totalPages) and the return; a
\* lookup made while another goroutine assigns to the map finds the map as it
\* was, as it will be, or is stopped by the runtime ("concurrent map read and
\* map write"); a racing load of totalPages finds the old or the new value
WalLookup ==
    \E t \in Threads :
        /\ thread.pc[t] = "lookup"
        /\ LET l == thread.loc[t]
               sees(w) == IF l.op = "WalRead" THEN WalRead(w, dbDisk, l.page)
                          ELSE [err |-> "nil", data |-> w.totalPages]
               racing == {Stored(wal, thread.loc[u].pages[thread.loc[u].i]) :
                             u \in {v \in Threads : thread.pc[v] = "store"}}
               outcomes == {sees(w) : w \in {wal} \cup racing}
                              \cup (IF racing # {} /\ l.op = "WalRead"
                                    THEN {[err |-> "fatal"]} ELSE {})
           IN  \E r \in outcomes :
                  /\ thread' = [thread EXCEPT
                        !.pc = IF r.err = "fatal" THEN [u \in Threads |-> "dead"]
                               ELSE [@ EXCEPT ![t] = "idle"],
                        !.out[t] = r @@ [op |-> l.op, page |-> l.page]]
                  /\ call' = Returned(l.op, r.err, <<l.page>>, 0)
        /\ UNCHANGED <<dbDisk, dbFile, walDisk, wal, pgr, tree, hist, budget, heap>>

NextWalThreads ==
    \/ WalWriteLock \/ WalWriteHeader \/ WalBeginStore \/ WalEndStore \/ WalWriteLog
    \/ WalCheckpointLock \/ WalGather \/ WalDbWrite \/ WalExit
    \/ WalReadBegin \/ WalLookup

SpecWalThreads == InitWalThreads /\ [][NextWalThreads]_vars

\* a goroutine inside a call keeps running
FairWalThreads == SpecWalThreads /\ WF_vars(NextWalThreads)

-----------------------------------------------------------------------------
(* Two pagers over the one WAL of an engine: pgr[i] is pager i, tree.user the
   pager in use; pager 1 is used first and, once pager 2 is used, never again.
   hist.alloc[i] are the page numbers Allocate returned on pager i and
   hist.flushedBy[i] those of them a Flush of pager i has written *)

Pagers == 1..2

InitPagers ==
    /\ dbDisk = Started.disk
    /\ dbFile = Started.f
    /\ walDisk = EmptyWalDisk
    /\ wal = OpenWAL(Started.f)
    /\ pgr = [i \in Pagers |-> IF i = 1 THEN NewPager(OpenWAL(Started.f)) ELSE NoPager]
    /\ tree = [user |-> 1]
    /\ call = Returned("Start", "nil", <<>>, 0)
    /\ hist = [alloc |-> [i \in Pagers |-> {}], flushedBy |-> [i \in Pagers |-> {}]]
    /\ budget = [calls |-> MaxCalls + 1, faults |-> 0]
    /\ heap = NoHeap
    /\ thread = NoThreads

\* Engine.NewPager(): the second pager is made, at any moment
NewPagerCall ==
    \E i \in Pagers :
        /\ pgr[i] = NoPager
        /\ pgr' = [pgr EXCEPT ![i] = NewPager(wal)]
        /\ call' = Returned("NewPager", "nil", <<i>>, 0)
        /\ UNCHANGED <<dbDisk, dbFile, walDisk, wal, tree, hist, budget, heap, thread>>

\* Allocate(PageTypeLeaf) on the pager in use or on the next one
AllocateOn ==
    \E i \in Pagers :
        /\ CanCall(0)
        /\ pgr[i] # NoPager
        /\ i >= tree.user
        /\ LET r == Allocate(pgr[i], PageTypeLeaf) IN
            /\ pgr' = [pgr EXCEPT ![i] = r.pgr]
            /\ call' = Returned("Allocate", "nil", <<i, r.page.pageNumber>>, 0)
            /\ hist' = [hist EXCEPT !.alloc[i] = @ \cup {r.page.pageNumber}]
        /\ tree' = [user |-> i]
        /\ budget' = Spend("nil")
        /\ UNCHANGED <<dbDisk, dbFile, walDisk, wal, heap, thread>>

\* Flush() of what the pager in use, or the next one, has dirty
FlushOn ==
    \E i \in Pagers :
        /\ pgr[i] # NoPager
        /\ i >= tree.user
        /\ \E order \in Orders(DirtyPages(pgr[i])) :
            /\ Len(order) > 0
            /\ LET r == PagerFlush(pgr[i], wal, walDisk, order, SaltsOf(wal), 0) IN
                /\ pgr' = [pgr EXCEPT ![i] = r.pgr]
                /\ wal' = r.w
                /\ walDisk' = r.wdisk
                /\ call' = Returned("Flush", r.err, <<i>> \o order, 0)
            /\ hist' = [hist EXCEPT !.flushedBy[i] =
                           @ \cup (DirtyPages(pgr[i]) \cap hist.alloc[i])]
        /\ tree' = [user |-> i]
        /\ UNCHANGED <<dbDisk, dbFile, budget, heap, thread>>

\* Reset() of the pager in use or of the next one, when it changes something
ResetOn ==
    \E i \in Pagers :
        /\ pgr[i] # NoPager
        /\ i >= tree.user
        /\ PagerReset(pgr[i], wal) # pgr[i]
        /\ pgr' = [pgr EXCEPT ![i] = PagerReset(pgr[i], wal)]
        /\ call' = Returned("Reset", "nil", <<i>>, 0)
        /\ tree' = [user |-> i]
        /\ UNCHANGED <<dbDisk, dbFile, walDisk, wal, hist, budget, heap, thread>>

NextPagers == NewPagerCall \/ AllocateOn \/ FlushOn \/ ResetOn

SpecPagers == InitPagers /\ [][NextPagers]_vars

-----------------------------------------------------------------------------
(* One new leaf page at the largest page size, 2^16 bytes: tree.pageNumber is
   its number and tree.cells the lengths of the cells added to it, from which
   the page follows; call.pages is the argument and the result of the last
   call *)

MaxPageSize == U16

\* record lengths a caller asks about, around both ends of the page
CellLengths ==
    {0, 1, 2, 8, 100, 1000,
     MaxPageSize - DbHeaderLen - LeafHeaderLen - 3,
     MaxPageSize - DbHeaderLen - LeafHeaderLen - 2,
     MaxPageSize - LeafHeaderLen - 3, MaxPageSize - LeafHeaderLen - 2,
     MaxPageSize - LeafHeaderLen - 1, MaxPageSize - 1, MaxPageSize}

\* the page pager.Allocate makes when file.PageSize() is 65536
FreshMaxPage(n) ==
    updateHeaderData(
        MemPage(NewPageHeader(PageTypeLeaf, MaxPageSize), n, Zeros(MaxPageSize), TRUE))

\* the page as the AddCell calls made so far have left it: [p, panic]
RECURSIVE MaxPageAfter(_, _)
MaxPageAfter(n, cells) ==
    IF cells = <<>> THEN [p |-> FreshMaxPage(n), panic |-> FALSE]
    ELSE LET before == MaxPageAfter(n, SubSeq(cells, 1, Len(cells) - 1))
         IN  IF before.panic THEN before
             ELSE AddCell(before.p, Fill(cells[Len(cells)], 7))

InitMaxPage ==
    /\ tree \in {[pageNumber |-> n, cells |-> <<>>] : n \in 1..MaxPage}
    /\ pgr = NoPager
    /\ hist = [cells |-> <<>>]
    /\ call = Returned("Allocate", "nil", <<>>, 0)
    /\ budget = [calls |-> MaxCalls, faults |-> 0]
    /\ dbDisk = EmptyDisk /\ dbFile = OpenDbFile(EmptyDisk)
    /\ walDisk = EmptyWalDisk /\ wal = OpenWAL(OpenDbFile(EmptyDisk))
    /\ heap = NoHeap
    /\ thread = NoThreads

\* a caller's Fits(n)
FitsCall ==
    \E n \in CellLengths :
        /\ call' = Returned("Fits", "nil",
                            <<n, Fits(MaxPageAfter(tree.pageNumber, tree.cells).p, n)>>, 0)
        /\ UNCHANGED <<dbDisk, dbFile, walDisk, wal, pgr, tree, hist, budget, heap, thread>>

\* a caller's AddCell of n bytes on the empty page, for an n that leaves
\* room for the cell and its pointer in a page of 65536 bytes
AddCellMaxPage ==
    \E n \in CellLengths :
        /\ tree.cells = <<>>
        /\ cellPointersStart(PageTypeLeaf, tree.pageNumber) + 2 <= MaxPageSize - n
        /\ tree' = [tree EXCEPT !.cells = Append(@, n)]
        /\ call' = Returned("AddCell",
                            IF MaxPageAfter(tree.pageNumber, <<n>>).panic
                            THEN "panic" ELSE "nil", <<n>>, 0)
        /\ UNCHANGED <<dbDisk, dbFile, walDisk, wal, pgr, hist, budget, heap, thread>>

NextMaxPage == FitsCall \/ AddCellMaxPage

SpecMaxPage == InitMaxPage /\ [][NextMaxPage]_vars

-----------------------------------------------------------------------------
(* The table B-tree *)

\* the records ReadRecord returns for cells 0..NumCells-1 of a page
RecordsOf(p) == [i \in 1..CellCount(p) |-> ReadRecord(p, i - 1)]

Readable(records) == \A i \in DOMAIN records : records[i].err = "nil"

\* the root as Insert finds it
RootRead == PagerRead(pgr, wal, dbDisk, tree.rootPage)

\* this step is an Insert that split a leaf root for a record a fresh leaf
\* has room for
SplitsLeafRoot ==
    /\ call'.op = "Insert" /\ call'.err = "nil"
    /\ RootRead.err = "nil"
    /\ RootRead.page.header.Type = PageTypeLeaf
    /\ ~Fits(RootRead.page, call'.pages[2])
    /\ Fits(Allocate(pgr, PageTypeLeaf).page, call'.pages[2])

SplitPreserved(original, root, left, right, rowID, recordLen) ==
    /\ Readable(RecordsOf(original))
    /\ RecordsOf(left) = RecordsOf(original)
    /\ RecordsOf(FromBytes(left.pageNumber, left.data)) = RecordsOf(original)
    /\ CellCount(right) = 1
    /\ ReadRecord(right, 0).err = "nil"
    /\ ReadRecord(right, 0).RowID = rowID
    /\ Len(ReadRecord(right, 0).Payload) + 2 = recordLen
    /\ root.header.Type = PageTypeInternal
    /\ root.header.NumCells = 1
    /\ root.header.RightPage = right.pageNumber
    /\ ReadInteriorNode(root, 0) =
           [err |-> "nil", LeftChild |-> left.pageNumber,
            Key |-> MaxOf({RecordsOf(original)[i].RowID : i \in 1..CellCount(original)})]

\* C5: an Insert that splits a leaf root, at any root page number, leaves on
\* the left page (as cached and as re-read from its bytes) exactly the records
\* the root held, on the right page exactly the new record, and an interior
\* root with one cell <<left, max RowID of the original leaf>> and RightPage
\* the right page.
C5_SplitPreservesRecords ==
    [][SplitsLeafRoot =>
          SplitPreserved(RootRead.page,
                         pgr'.pageCache[tree.rootPage],
                         pgr'.pageCache[pgr.pageCount + 1],
                         pgr'.pageCache[pgr.pageCount + 2],
                         call'.pages[1], call'.pages[2])]_vars

LayoutOK(p) ==
    /\ cellPointersStart(p.header.Type, p.pageNumber) + 2 * p.header.NumCells
           <= p.header.CellsOffset
    /\ p.header.CellsOffset <= PageSize

\* C6: after every Insert, whatever the record's length, every page in the
\* pager cache has cellPointersStart + 2*NumCells <= CellsOffset <= PageSize.
C6_PageLayout ==
    call.op = "Insert" => \A n \in DOMAIN pgr.pageCache : LayoutOK(pgr.pageCache[n])

\* the RowIDs ReadRecord finds on a leaf, none when the page cannot be read
LeafRowIDs(n) ==
    LET rd == PagerRead(pgr, wal, dbDisk, n)
    IN  IF rd.err # "nil" THEN {}
        ELSE {RecordsOf(rd.page)[i].RowID :
                 i \in {j \in 1..CellCount(rd.page) : RecordsOf(rd.page)[j].err = "nil"}}

InteriorCells(root) == [i \in 1..CellCount(root) |-> ReadInteriorNode(root, i - 1)]

KeyOrder(root) ==
    LET cells == InteriorCells(root)
    IN  /\ \A i \in DOMAIN cells :
              /\ cells[i].err = "nil"
              /\ \A id \in LeafRowIDs(cells[i].LeftChild) : cells[i].Key >= id
              /\ \A id \in LeafRowIDs(root.header.RightPage) : id > cells[i].Key
        /\ \A i, j \in DOMAIN cells : i < j => cells[i].Key < cells[j].Key

-----------------------------------------------------------------------------
(* The pager *)

\* what the last successful Flush left of a page: its bytes, or what the
\* file held before any Flush
AsOfLastFlush(p) ==
    IF Has(hist.flushed, p)
    THEN [err |-> "nil", data |-> hist.flushed[p]]
    ELSE DbRead(dbDisk, p)

ReadsAsFlushed(p) ==
    LET rd == PagerRead(pgr, wal, dbDisk, p)
    IN  /\ rd.err = AsOfLastFlush(p).err
        /\ rd.err = "nil" => rd.page.data = AsOfLastFlush(p).data

CleanPages(pg) == DOMAIN pg.pageCache \ DirtyPages(pg)

\* C11: Reset leaves no dirty page in the cache, keeps the clean ones, does
\* not touch the file, sets the page count to the file's TotalPages, and every
\* Pager.Read after it returns the page as of the last successful Flush.
C11_ResetDiscards ==
    [][call'.op = "Reset" =>
          /\ DirtyPages(pgr') = {}
          /\ \A n \in CleanPages(pgr) :
                Has(pgr'.pageCache, n) /\ pgr'.pageCache[n] = pgr.pageCache[n]
          /\ UNCHANGED <<wal, walDisk, dbFile, dbDisk>>
          /\ pgr'.pageCount = wal'.totalPages
          /\ \A p \in 1..(pgr.pageCount + 1) : ReadsAsFlushed(p)']_vars

FileUntouched == UNCHANGED <<wal, walDisk, dbFile, dbDisk>>

FlushedPages == {call.pages[i] : i \in 1..Len(call.pages)}

\* C12: Allocate, Insert (Pager.Write and the in-place AddCell/SetHeader) and
\* Reset leave the file as it was; Flush hands exactly the dirty cached pages
\* to one Write of the file, after whose success no page is dirty and the file
\* reads back the cached bytes of every flushed page, and after whose failure
\* every dirty flag is still set.
C12_FileChangesOnlyInFlush ==
    [][/\ call'.op \in {"Allocate", "Insert", "Reset"} => FileUntouched
       /\ call'.op = "Flush" =>
            /\ FlushedPages' = DirtyPages(pgr)
            /\ Len(call'.pages) = Cardinality(DirtyPages(pgr))
            /\ UNCHANGED <<dbFile, dbDisk>>
            /\ call'.err = "nil" =>
                  /\ DirtyPages(pgr') = {}
                  /\ \A p \in DirtyPages(pgr) :
                        WalRead(wal', dbDisk', p)
                            = [err |-> "nil", data |-> pgr'.pageCache[p].data]
            /\ call'.err # "nil" =>
                  /\ DirtyPages(pgr') = DirtyPages(pgr)
                  /\ pgr' = pgr]_vars

\* a Flush of several dirty pages that succeeded after an earlier one failed
C12_Witness ==
    /\ call.op = "Flush" /\ call.err = "nil"
    /\ Len(call.pages) >= 2
    /\ budget.faults = 0

\* the rightmost leaf as Insert finds it under an interior root
RightmostRead == PagerRead(RootRead.pgr, wal, dbDisk, RootRead.page.header.RightPage)

\* this step is an Insert on an interior root whose rightmost leaf has no room
\* for the record and whose root has no room for another interior cell
InteriorRootFull ==
    /\ call'.op = "Insert"
    /\ RootRead.err = "nil"
    /\ RootRead.page.header.Type = PageTypeInternal
    /\ RightmostRead.err = "nil"
    /\ ~Fits(RightmostRead.page, call'.pages[2])
    /\ ~Fits(RootRead.page, InteriorNodeSize)

\* C13: such an Insert returns an error and changes nothing: no page is
\* allocated, the page count, the root's RightPage and the cell counts of root
\* and leaf are as before, no page becomes dirty, the file is untouched.
C13_InteriorSplitFailsCleanly ==
    [][InteriorRootFull =>
          /\ call'.err \notin {"nil", "panic"}
          /\ pgr'.pageCount = pgr.pageCount
          /\ DOMAIN pgr'.pageCache \subseteq
                DOMAIN pgr.pageCache \cup {tree.rootPage, RootRead.page.header.RightPage}
          /\ \A n \in DOMAIN pgr.pageCache : pgr'.pageCache[n] = pgr.pageCache[n]
          /\ DirtyPages(pgr') = DirtyPages(pgr)
          /\ RootRead'.page = RootRead.page
          /\ RightmostRead'.page = RightmostRead.page
          /\ FileUntouched]_vars

-----------------------------------------------------------------------------
(* The log file *)

Frames(items) == SelectSeq(items, LAMBDA it : it.kind = "frame")

\* the frames the last step put into the log: all frames of the file when the
\* step wrote the header of a new generation, else those past the old ones
NewFrames ==
    IF walDisk'.items # <<>> /\ Len(walDisk'.items) >= Len(walDisk.items)
          /\ SubSeq(walDisk'.items, 1, Len(walDisk.items)) = walDisk.items
    THEN Frames(SubSeq(walDisk'.items, Len(walDisk.items) + 1, Len(walDisk'.items)))
    ELSE Frames(walDisk'.items)

\* C14: the frames one WAL.Write appends follow the order of its pages, the
\* frame of the last page alone carries the commit flag, and a call that
\* returns an error has written no frame that carries it.
C14_FrameOrderAndCommit ==
    [][call'.op = "WalWrite" =>
          /\ Len(NewFrames) <= Len(call'.pages)
          /\ \A i \in 1..Len(NewFrames) :
                NewFrames[i].header.pageNumber = call'.pages[i]
          /\ call'.err = "nil" =>
                /\ Len(NewFrames) = Len(call'.pages)
                /\ \A i \in 1..Len(NewFrames) :
                      NewFrames[i].header.commit
                          = (IF i = Len(call'.pages) THEN 1 ELSE 0)
          /\ call'.err # "nil" =>
                \A i \in 1..Len(NewFrames) : NewFrames[i].header.commit = 0]_vars

-----------------------------------------------------------------------------
(* Slices *)

\* C15: the WAL buffer shares no backing array with a slice a caller holds:
\* whatever callers do to the slices WAL.Read returned or WAL.Write was given,
\* WAL.Read returns the bytes last written and a successful Checkpoint puts
\* those bytes into the database file.
C15_DefensiveCopies ==
    /\ \A p \in DOMAIN wal.pageCache : wal.pageCache[p] \notin heap.held
    /\ \A p \in Acked :
          WalRead(Deref(wal, heap), dbDisk, p)
              = [err |-> "nil", data |-> hist.acked[p].data]
    /\ (call.op = "Checkpoint" /\ call.err = "nil") =>
          \A p \in Acked :
              SliceFrom(DbRead(dbDisk, p).data, readOffset(p))
                  = SliceFrom(hist.acked[p].data, readOffset(p))

\* a caller has overwritten a slice it passed to WAL.Write and one WAL.Read
\* returned for a buffered page
C15_Witness ==
    /\ Acked # {}
    /\ \E a, b \in heap.held :
          /\ a # b
          /\ heap.bufs[a] = Scribbled /\ heap.bufs[b] = Scribbled
          /\ \E p \in Acked : wal.pageCache[p] > a /\ wal.pageCache[p] < b

-----------------------------------------------------------------------------
(* Cells *)

\* C16: after AddCell(x_0), ..., AddCell(x_k) on a new leaf page, each made
\* when Fits held, the page counts k+1 cells (in its header and in the header
\* bytes), pointer i sits at the i-th two-byte slot after the header, the
\* cells lie one below the other, and the bytes at pointer i are x_i.
C16_CellRoundTrip ==
    LET p == pgr.pageCache[tree.rootPage]
        xs == hist.cells
        ptr(i) == cellDataOffset(p, i)
    IN  /\ call.err # "panic"
        /\ CellCount(p) = Len(xs)
        /\ GetBE16(p.data, headerOffset(p.pageNumber) + 3) = Len(xs)
        /\ \A i \in 0..(Len(xs) - 1) :
              /\ ptr(i) + Len(xs[i + 1]) = (IF i = 0 THEN PageSize ELSE ptr(i - 1))
              /\ ptr(i) >= cellPointersStart(PageTypeLeaf, p.pageNumber) + 2 * Len(xs)
              /\ SubSeq(p.data, ptr(i) + 1, ptr(i) + Len(xs[i + 1])) = xs[i + 1]

\* three cells fill page 1 to the last byte
C16_Witness ==
    /\ tree.rootPage = 1
    /\ Len(hist.cells) >= 3
    /\ call.op = "AddCell"
    /\ ~Fits(pgr.pageCache[1], 0)

-----------------------------------------------------------------------------
(* Concurrent calls *)

\* C17: under any interleaving of DbFile.Read and DbFile.Write calls, a call
\* that has done its Seek finds the handle still at its page's offset when it
\* reads or writes, and every Read(p) that returns without error returns
\* bytes of page p only.
C17_HandleSerialized ==
    \A t \in Threads :
        /\ thread.pc[t] \in {"read", "write"} =>
              thread.pos = pageOffset(thread.arg[t])
        /\ (thread.out[t].op = "Read" /\ thread.out[t].err = "nil") =>
              \A i \in (readOffset(thread.out[t].page) + 1)..PageSize :
                  thread.out[t].data[i] \div 16 = thread.out[t].page

\* C18: no WAL.Read or TotalPages is at its access to the buffer while a
\* WAL.Write is in the middle of an update of it, and every such access
\* returns (the runtime never stops the process for a racing map access).
C18_BufferMediated ==
    /\ \A t, u \in Threads : ~(thread.pc[t] = "lookup" /\ thread.pc[u] = "store")
    /\ ~Crashed

\* a goroutine is between w.mu.Lock() and the deferred w.mu.Unlock()
InWalCS(t) ==
    thread.pc[t] \in {"header", "loop", "store", "log", "gather", "dbwrite", "exit"}

\* C19: at most one goroutine is inside WAL.Write or WAL.Checkpoint, and it is
\* the holder of the lock (so no Checkpoint gathers the buffer while a Write
\* is between two of its updates); whoever holds the lock gives it up,
\* whether its call succeeds or fails, as long as the process runs.
C19_CheckpointOrdered ==
    /\ [](\A t \in Threads :
             InWalCS(t) => (thread.mu.writer = t
                            /\ \A u \in Threads \ {t} : ~InWalCS(u)))
    /\ \A t \in Threads :
          (thread.mu.writer = t) ~> (thread.mu.writer # t \/ Crashed)

\* a Checkpoint gathers the buffer after another goroutine's Write failed
C19_Witness ==
    \E t, u \in Threads :
        /\ t # u
        /\ thread.out[t].op = "WalWrite" /\ thread.out[t].err = "io"
        /\ thread.pc[u] = "dbwrite" /\ Len(thread.loc[u].pages) > 0

-----------------------------------------------------------------------------
(* The buffer after a Checkpoint *)

\* C20: after a successful Checkpoint the in-memory buffer holds no page: no
\* WAL.Read is served from it, and a Checkpoint that follows at once would
\* gather nothing to hand to DbFile.Write.
C20_CheckpointClearsBuffer ==
    (call.op = "Checkpoint" /\ call.err = "nil") =>
        /\ wal.pageCache = <<>>
        /\ \A p \in 1..MaxPage : ~WalCacheHit(wal, p)
        /\ \A order \in Orders(DOMAIN wal.pageCache) : pagesToWrite(wal, order) = <<>>

-----------------------------------------------------------------------------
(* Layout of the log *)

\* C21: a WAL.Write that finds the append position at 0 puts the 32-byte
\* header at offset 0; after a successful Write the log holds the header and
\* then, one after the other, k frames of 24 + PageSize bytes each, and the
\* append position is 32 + k * (24 + PageSize); a successful Checkpoint sets
\* the position to 0 and a failed one leaves it as it was.
C21_LogLayout ==
    [][/\ (call'.op = "WalWrite" /\ call'.err = "nil") =>
            LET fs == Frames(walDisk'.items) IN
              /\ wal.pos = 0 =>
                    /\ walDisk'.items[1].kind = "header"
                    /\ walDisk'.items[1].at = 0
                    /\ walDisk'.items[1].len = WALHeaderLen
              /\ wal'.pos = WALHeaderLen + Len(fs) * (WALFrameHeaderLen + PageSize)
              /\ \A i \in 1..Len(fs) :
                    /\ fs[i].len = WALFrameHeaderLen + PageSize
                    /\ fs[i].at = WALHeaderLen + (i - 1) * (WALFrameHeaderLen + PageSize)
       /\ call'.op = "Checkpoint" =>
            wal'.pos = (IF call'.err = "nil" THEN 0 ELSE wal.pos)]_vars

-----------------------------------------------------------------------------
(* Checkpoint and the order of the buffer *)

\* the buffered page numbers past the end of the file follow it one by one
ExtendsWithoutGap(w, f) ==
    LET new == {p \in DOMAIN w.pageCache : p > f.totalPages}
    IN  new = (f.totalPages + 1)..(f.totalPages + Cardinality(new))

\* C22: when no I/O call fails and the buffered page numbers, in ascending
\* order, extend the database file without a gap, Checkpoint succeeds and the
\* file holds every buffered page, in whatever order the buffer is ranged over.
C22_OrderIndependent ==
    [][(/\ call'.op = "Checkpoint"
        /\ call'.err # "io"
        /\ ExtendsWithoutGap(wal, dbFile)) =>
          /\ call'.err = "nil"
          /\ \A p \in DOMAIN wal.pageCache :
                SliceFrom(DbRead(dbDisk', p).data, readOffset(p))
                    = SliceFrom(wal.pageCache[p], readOffset(p))]_vars

-----------------------------------------------------------------------------
(* Log before data *)

\* C23: every page image a Checkpoint puts into the database file had been
\* appended to the log as a frame and synced by a WAL.Write before, also when
\* a WAL.Write before it returned an error.
C23_LogBeforeData ==
    [][call'.op = "Checkpoint" =>
          \A p \in DOMAIN dbDisk'.pages :
              (~Has(dbDisk.pages, p) \/ dbDisk.pages[p] # dbDisk'.pages[p]) =>
                  \E fr \in hist.logged :
                      /\ fr.PageNumber = p
                      /\ SliceFrom(fr.Data, readOffset(p)) = dbDisk'.pages[p]]_vars

-----------------------------------------------------------------------------
(* Pagers of one WAL *)

\* C24: Allocate on one pager never returns a page number the other pager
\* has allocated and flushed, and no Flush of one pager writes a page it
\* allocated under a number the other pager has allocated and flushed.
C24_AllocateUnique ==
    [][\A i, j \in Pagers :
          i # j =>
             /\ (call'.op = "Allocate" /\ call'.pages[1] = i) =>
                   call'.pages[2] \notin hist.flushedBy[j]
             /\ (call'.op = "Flush" /\ call'.pages[1] = i) =>
                   DirtyPages(pgr[i]) \cap hist.alloc[i] \cap hist.flushedBy[j] = {}]_vars

-----------------------------------------------------------------------------
(* The largest page size *)

\* C25: at PageSize 65536 a new page stores CellsOffset 0; on the empty leaf
\* Fits(n) is true exactly when the pointer and n bytes below offset 65536
\* leave each other room; AddCell of n bytes puts the cell at 65536 - n and
\* stores that offset modulo 2^16.
C25_MaxPageSize ==
    LET p == MaxPageAfter(tree.pageNumber, tree.cells).p
        start == cellPointersStart(PageTypeLeaf, p.pageNumber)
    IN  /\ CellCount(p) = 0 =>
              /\ p.header.CellsOffset = 0
              /\ GetBE16(p.data, headerOffset(p.pageNumber) + LeafHeaderLen - 3) = 0
        /\ (call.op = "Fits" /\ CellCount(p) = 0) =>
              (call.pages[2] <=> (start + 2 <= MaxPageSize - call.pages[1]))
        /\ call.op = "AddCell" =>
              LET n == call.pages[1] IN
                /\ call.err = "nil"
                /\ p.header.CellsOffset = (MaxPageSize - n) % U16
                /\ cellDataOffset(p, 0) = (MaxPageSize - n) % U16
                /\ SubSeq(p.data, MaxPageSize - n + 1, MaxPageSize) = Fill(n, 7)

====
